---- MODULE Spec2Model ----
(***************************************************************************)
(* Model of the two request handlers of paysolutions:                      *)
(*   - the DocuSign webhook reconciler (POST /api/docusign/webhook)        *)
(*   - the Twilio verify-code checker (POST verify code)                   *)
(* JavaScript strings are sequences of one-character strings; the value    *)
(* `undefined` is the one-element sequence Undefined, which no string of   *)
(* characters equals.  Every `await` of a handler ends one action.         *)
(***************************************************************************)
EXTENDS Integers, Sequences, FiniteSets, TLC

VARIABLES loans, loans0, clock, env, wh, vr

vars == <<loans, loans0, clock, env, wh, vr>>

(***************************************************************************)
(* Bounds                                                                  *)
(***************************************************************************)
MaxClock == 1

(***************************************************************************)
(* JavaScript values                                                       *)
(***************************************************************************)
Undefined == <<"undefined">>

Null == <<"null">>

Truthy(s) == s # Undefined /\ s # Null /\ s # <<>>

\* a || b
Or(a, b) == IF Truthy(a) THEN a ELSE b

RECURSIVE Rep(_, _)
Rep(c, n) == IF n = 0 THEN <<>> ELSE <<c>> \o Rep(c, n - 1)

UpperChars == <<"A","B","C","D","E","F","G","H","I","J","K","L","M",
                "N","O","P","Q","R","S","T","U","V","W","X","Y","Z">>

LowerChars == <<"a","b","c","d","e","f","g","h","i","j","k","l","m",
                "n","o","p","q","r","s","t","u","v","w","x","y","z">>

DigitChars == {"0","1","2","3","4","5","6","7","8","9"}

LowerChar(c) ==
  IF \E i \in 1..Len(UpperChars) : UpperChars[i] = c
  THEN LowerChars[CHOOSE i \in 1..Len(UpperChars) : UpperChars[i] = c]
  ELSE c

\* String.prototype.toLowerCase
toLowerCase(s) == [i \in 1..Len(s) |-> LowerChar(s[i])]

\* phone.replace(/\D/g, '')
stripNonDigits(s) == SelectSeq(s, LAMBDA c : c \in DigitChars)

startsWith(s, p) == Len(s) >= Len(p) /\ SubSeq(s, 1, Len(p)) = p

(***************************************************************************)
(* String literals of the source                                           *)
(***************************************************************************)
sCompleted == <<"c","o","m","p","l","e","t","e","d">>
sSigned    == <<"s","i","g","n","e","d">>
sDeclined  == <<"d","e","c","l","i","n","e","d">>
sVoided    == <<"v","o","i","d","e","d">>
sSent      == <<"s","e","n","t">>
sDelivered == <<"d","e","l","i","v","e","r","e","d">>
sReview    == <<"r","e","v","i","e","w">>
sVerified  == <<"v","e","r","i","f","i","e","d">>
sFailed    == <<"f","a","i","l","e","d">>
sApproved  == <<"a","p","p","r","o","v","e","d">>
sCanceled  == <<"c","a","n","c","e","l","e","d">>

(***************************************************************************)
(* The loans table                                                         *)
(***************************************************************************)
Loan1 == Rep("1", 8) \o <<"-">> \o Rep("a", 4) \o <<"-">> \o Rep("4", 4)
           \o <<"-">> \o Rep("8", 4) \o <<"-">> \o Rep("1", 12)

Loan2 == Rep("2", 8) \o <<"-">> \o Rep("B", 4) \o <<"-">> \o Rep("4", 4)
           \o <<"-">> \o Rep("9", 4) \o <<"-">> \o Rep("2", 12)

\* a well-formed id no row carries
Loan3 == Rep("3", 8) \o <<"-">> \o Rep("c", 4) \o <<"-">> \o Rep("4", 4)
           \o <<"-">> \o Rep("a", 4) \o <<"-">> \o Rep("3", 12)

Env1 == <<"E","1">>
Env2 == <<"E","2">>
Env3 == <<"E","3">>

sFunded     == <<"f","u","n","d","e","d">>
sUnverified == <<"u","n","v","e","r","i","f","i","e","d">>
Phone0      == <<"+","1","5","5","5","0","0","0","0","0","0","0">>

LoanRow(st, envl, ds, pvs, vpn) ==
  [status |-> st, docusign_envelope_id |-> envl, docusign_status |-> ds,
   docusign_completed_at |-> Null, docusign_status_updated |-> 0,
   phone_verification_status |-> pvs, verified_phone_number |-> vpn,
   updated_at |-> 0]

\* .from('loans').select(...).eq(col, v): the ids of the matching rows
SelectEq(tbl, col, v) ==
  IF col = "id" THEN {k \in DOMAIN tbl : k = v}
  ELSE {k \in DOMAIN tbl : tbl[k][col] = v}

NoLoan == [id |-> Null, status |-> Null, docusign_status |-> Null,
           phone_verification_status |-> Null]

\* the columns the two handlers select
Project(tbl, k) ==
  [id |-> k, status |-> tbl[k].status, docusign_status |-> tbl[k].docusign_status,
   phone_verification_status |-> tbl[k].phone_verification_status]

\* a lookup that takes the first of several matching rows
Single_firstRow(tbl, ks, qerr) ==
  IF qerr \/ ks = {}
  THEN [data |-> NoLoan, error |-> TRUE]
  ELSE [data |-> Project(tbl, CHOOSE k \in ks : TRUE), error |-> FALSE]

\* .single(): an error unless exactly one row matches; qerr is a failure of
\* the query itself
Single(tbl, ks, qerr) ==
  IF qerr \/ Cardinality(ks) # 1
  THEN [data |-> NoLoan, error |-> TRUE]
  ELSE [data |-> Project(tbl, CHOOSE k \in ks : TRUE), error |-> FALSE]

\* .from('loans').update(data).eq('id', id): data is a record of the
\* columns to set; a failed update changes nothing
UpdateEqId(tbl, data, id, fails) ==
  IF fails THEN tbl
  ELSE [k \in DOMAIN tbl |->
          IF k = id
          THEN [c \in DOMAIN tbl[k] |->
                  IF c \in DOMAIN data THEN data[c] ELSE tbl[k][c]]
          ELSE tbl[k]]

(***************************************************************************)
(* Webhook reconciler: payload normalisation (route.ts 12-51)              *)
(***************************************************************************)
\* a customFields object; isObject = FALSE stands for an absent field
NoFields == [isObject |-> FALSE, loan_id |-> Undefined]

EmptyFields == [isObject |-> TRUE, loan_id |-> Undefined]

Fields(id) == [isObject |-> TRUE, loan_id |-> id]

NoSummary == [isObject |-> FALSE, status |-> Undefined,
              completedDateTime |-> Undefined,
              statusChangedDateTime |-> Undefined]

NoData == [isObject |-> FALSE, envelopeId |-> Undefined,
           envelopeSummary |-> NoSummary, status |-> Undefined,
           customFields |-> NoFields]

\* the fields of the JSON body the handler looks at
EmptyPayload ==
  [data |-> NoData, envelopeId |-> Undefined, status |-> Undefined,
   envelopeStatus |-> Undefined, completedDateTime |-> Undefined,
   statusChangedDateTime |-> Undefined, customFields |-> NoFields]

NoTuple == [known |-> FALSE, envelopeId |-> Undefined, status |-> Undefined,
            completedDateTime |-> Undefined,
            statusChangedDateTime |-> Undefined, customFields |-> EmptyFields]

\* format 2 without the `|| webhookData.envelopeStatus` of line 35
Extract_statusOnly(p) ==
  IF p.data.isObject /\ Truthy(p.data.envelopeId)
  THEN [known |-> TRUE,
        envelopeId |-> p.data.envelopeId,
        status |-> Or(p.data.envelopeSummary.status, p.data.status),
        completedDateTime |-> p.data.envelopeSummary.completedDateTime,
        statusChangedDateTime |-> p.data.envelopeSummary.statusChangedDateTime,
        customFields |-> IF p.data.customFields.isObject
                         THEN p.data.customFields ELSE EmptyFields]
  ELSE IF Truthy(p.envelopeId)
  THEN [known |-> TRUE,
        envelopeId |-> p.envelopeId,
        status |-> p.status,
        completedDateTime |-> p.completedDateTime,
        statusChangedDateTime |-> p.statusChangedDateTime,
        customFields |-> IF p.customFields.isObject
                         THEN p.customFields ELSE EmptyFields]
  ELSE NoTuple

\* lines 19-46: format 1 is chosen by data.envelopeId, format 2 by the
\* top-level envelopeId; known = FALSE is the 400 of line 45
Extract(p) ==
  IF p.data.isObject /\ Truthy(p.data.envelopeId)
  THEN [known |-> TRUE,
        envelopeId |-> p.data.envelopeId,
        status |-> Or(p.data.envelopeSummary.status, p.data.status),
        completedDateTime |-> p.data.envelopeSummary.completedDateTime,
        statusChangedDateTime |-> p.data.envelopeSummary.statusChangedDateTime,
        customFields |-> IF p.data.customFields.isObject
                         THEN p.data.customFields ELSE EmptyFields]
  ELSE IF Truthy(p.envelopeId)
  THEN [known |-> TRUE,
        envelopeId |-> p.envelopeId,
        status |-> Or(p.status, p.envelopeStatus),
        completedDateTime |-> p.completedDateTime,
        statusChangedDateTime |-> p.statusChangedDateTime,
        customFields |-> IF p.customFields.isObject
                         THEN p.customFields ELSE EmptyFields]
  ELSE NoTuple

(***************************************************************************)
(* Webhook reconciler: status mapping and update data (route.ts 98-135)    *)
(***************************************************************************)
\* the switch without the toLowerCase of line 100
MapStatus_caseSensitive(status, loanStatus) ==
  LET ds == status IN
  IF ds = sCompleted \/ ds = sSigned
  THEN [docusignStatus |-> sSigned, newLoanStatus |-> sSigned]
  ELSE IF ds = sDeclined \/ ds = sVoided
  THEN [docusignStatus |-> ds, newLoanStatus |-> sReview]
  ELSE [docusignStatus |-> ds, newLoanStatus |-> loanStatus]

MapStatus(status, loanStatus) ==
  LET ds == toLowerCase(status) IN
  IF ds = sCompleted \/ ds = sSigned
  THEN [docusignStatus |-> sSigned, newLoanStatus |-> sSigned]
  ELSE IF ds = sDeclined \/ ds = sVoided
  THEN [docusignStatus |-> ds, newLoanStatus |-> sReview]
  ELSE [docusignStatus |-> ds, newLoanStatus |-> loanStatus]

\* the update data without the guard of line 133
BuildUpdateData_alwaysCompleted(m, loanStatus, completedDateTime, now) ==
  LET base == [docusign_status |-> m.docusignStatus,
               docusign_status_updated |-> now]
      withStatus == IF m.newLoanStatus # loanStatus
                    THEN ("status" :> m.newLoanStatus) @@ base ELSE base
  IN ("docusign_completed_at" :> completedDateTime) @@ withStatus

BuildUpdateData(m, loanStatus, completedDateTime, now) ==
  LET base == [docusign_status |-> m.docusignStatus,
               docusign_status_updated |-> now]
      withStatus == IF m.newLoanStatus # loanStatus
                    THEN ("status" :> m.newLoanStatus) @@ base ELSE base
  IN IF Truthy(completedDateTime)
     THEN ("docusign_completed_at" :> completedDateTime) @@ withStatus
     ELSE withStatus

(***************************************************************************)
(* Webhook reconciler: request state                                       *)
(***************************************************************************)
NoResp == [http |-> 0, error |-> "", success |-> FALSE, loanId |-> Null,
           docusignStatus |-> Null, loanStatus |-> Null]

ErrResp(code, msg) == [NoResp EXCEPT !.http = code, !.error = msg]

NoUpdate == [docusign_status |-> Null]

\* pc, t, loan, findError, customFieldError and updateData are the handler's
\* position and locals; payload, lookups, matched and envelopeError record
\* what the request received and what its first lookup returned
WhIdle == [pc |-> "idle", payload |-> EmptyPayload, t |-> NoTuple,
           loan |-> NoLoan, findError |-> FALSE, customFieldError |-> FALSE,
           lookups |-> 0, matched |-> 0, envelopeError |-> FALSE,
           updateData |-> NoUpdate, resp |-> NoResp]

\* the second lookup whenever a loan_id is present
tryCustomField_always(findError, customFields) ==
  Truthy(customFields.loan_id)

\* line 72
tryCustomField(findError, customFields) ==
  findError /\ Truthy(customFields.loan_id)

\* lines 87-137, run without an await once the lookups are over
AfterLookup(q, loan, findError, now) ==
  IF findError \/ loan.id = Null
  THEN [q EXCEPT !.pc = "done", !.loan = loan, !.findError = findError,
                 !.resp = ErrResp(404, "Loan not found")]
  ELSE LET m == MapStatus(q.t.status, loan.status) IN
       [q EXCEPT !.pc = "update", !.loan = loan, !.findError = findError,
                 !.updateData = BuildUpdateData(m, loan.status,
                                                q.t.completedDateTime, now)]

\* lines 6-51; the body is one of the payloads ps
WhReceive(r, ps) ==
  /\ wh[r].pc = "idle"
  /\ \E p \in ps :
     LET t == Extract(p) IN
     wh' = [wh EXCEPT ![r] =
       IF ~t.known
       THEN [@ EXCEPT !.pc = "done", !.payload = p,
                      !.resp = ErrResp(400, "Invalid webhook payload format")]
       ELSE IF ~Truthy(t.envelopeId) \/ ~Truthy(t.status)
       THEN [@ EXCEPT !.pc = "done", !.payload = p, !.t = t,
                      !.resp = ErrResp(400, "Missing envelope ID or status")]
       ELSE [@ EXCEPT !.pc = "findByEnvelope", !.payload = p, !.t = t]]
  /\ UNCHANGED <<loans, loans0, clock, env, vr>>

\* line 6 throws on a body that is not JSON: lines 173-178
WhBadJson(r) ==
  /\ wh[r].pc = "idle"
  /\ wh' = [wh EXCEPT ![r] = [@ EXCEPT !.pc = "done",
                 !.resp = ErrResp(500, "Failed to process webhook")]]
  /\ UNCHANGED <<loans, loans0, clock, env, vr>>

\* lines 64-72 (and 87-137 when the second lookup is not attempted)
WhFindByEnvelope(r, qerr) ==
  /\ wh[r].pc = "findByEnvelope"
  /\ LET ks  == SelectEq(loans, "docusign_envelope_id", wh[r].t.envelopeId)
         res == Single(loans, ks, qerr)
         q   == [wh[r] EXCEPT !.matched = Cardinality(ks), !.lookups = 1,
                              !.envelopeError = res.error]
     IN wh' = [wh EXCEPT ![r] =
          IF tryCustomField(res.error, q.t.customFields)
          THEN [q EXCEPT !.pc = "findByLoanId", !.loan = res.data,
                         !.findError = res.error]
          ELSE AfterLookup(q, res.data, res.error, clock)]
  /\ UNCHANGED <<loans, loans0, clock, env, vr>>

\* lines 73-85, then 87-137
WhFindByLoanId(r, qerr) ==
  /\ wh[r].pc = "findByLoanId"
  /\ LET ks  == SelectEq(loans, "id", wh[r].t.customFields.loan_id)
         res == Single(loans, ks, qerr)
         q   == [wh[r] EXCEPT !.lookups = 2, !.customFieldError = res.error]
     IN wh' = [wh EXCEPT ![r] =
          IF ~res.error /\ res.data.id # Null
          THEN AfterLookup(q, res.data, FALSE, clock)
          ELSE AfterLookup(q, q.loan, q.findError, clock)]
  /\ UNCHANGED <<loans, loans0, clock, env, vr>>

\* lines 139-171
WhUpdate(r, fails) ==
  /\ wh[r].pc = "update"
  /\ loans' = UpdateEqId(loans, wh[r].updateData, wh[r].loan.id, fails)
  /\ LET q == wh[r]
         m == MapStatus(q.t.status, q.loan.status)
     IN wh' = [wh EXCEPT ![r] =
          IF fails
          THEN [q EXCEPT !.pc = "done",
                         !.resp = ErrResp(500, "Failed to update loan")]
          ELSE [q EXCEPT !.pc = "done",
                         !.resp = [http |-> 200, error |-> "", success |-> TRUE,
                                   loanId |-> q.loan.id,
                                   docusignStatus |-> m.docusignStatus,
                                   loanStatus |-> m.newLoanStatus]]]
  /\ UNCHANGED <<loans0, clock, env, vr>>

\* time passes between the steps of the handlers
Tick ==
  /\ clock < MaxClock
  /\ clock' = clock + 1
  /\ UNCHANGED <<loans, loans0, env, wh, vr>>

(***************************************************************************)
(* Verification checker (route.ts 194-389)                                 *)
(***************************************************************************)
\* lines 217-233
formatPhoneNumber(phone) ==
  LET cleaned == stripNonDigits(phone) IN
  IF startsWith(phone, <<"+">>) /\ Len(cleaned) = 11 THEN phone
  ELSE IF Len(cleaned) = 10 THEN <<"+", "1">> \o cleaned
  ELSE IF Len(cleaned) = 11 /\ startsWith(cleaned, <<"1">>)
       THEN <<"+">> \o cleaned
  ELSE phone

HexChars == DigitChars \cup {"a","b","c","d","e","f","A","B","C","D","E","F"}

\* z.string().uuid(): 8-4-4-4-12 hexadecimal digits
isUuid(s) ==
  /\ s # Undefined
  /\ Len(s) = 36
  /\ \A i \in 1..36 : IF i \in {9, 14, 19, 24} THEN s[i] = "-"
                                               ELSE s[i] \in HexChars

\* lines 208-212
verifyCodeSchema(body) ==
  /\ body.phoneNumber # Undefined /\ Len(body.phoneNumber) >= 1
  /\ body.code # Undefined /\ Len(body.code) >= 1
  /\ isUuid(body.loanId)

\* the check of line 238 without verifySid
configMissing_noServiceSid == ~env.accountSid \/ ~env.authToken

\* line 238
configMissing == ~env.accountSid \/ ~env.authToken \/ ~env.verifySid

NoVResp == [http |-> 0, error |-> "", success |-> FALSE, status |-> Null,
            message |-> ""]

VErr(code, msg) == [NoVResp EXCEPT !.http = code, !.error = msg]

NoBody == [phoneNumber |-> Undefined, code |-> Undefined, loanId |-> Undefined]

NoCheck == [status |-> Null, valid |-> FALSE]

\* pc, body, formattedPhone, loan, check (verificationCheck), updateError
\* and now (the new Date() of lines 326 and 352) are the handler's position
\* and locals; parsed, reads, writes and calls record that the body was
\* JSON and count the request's store reads, store writes and provider calls
VrIdle == [pc |-> "idle", parsed |-> FALSE, body |-> NoBody,
           formattedPhone |-> Undefined, loan |-> NoLoan, check |-> NoCheck,
           updateError |-> FALSE, now |-> 0,
           reads |-> 0, writes |-> 0, calls |-> 0, resp |-> NoVResp]

\* no short-circuit
alreadyVerified_never(loan) == FALSE

\* line 294
alreadyVerified(loan) == loan.phone_verification_status = sVerified

\* line 319 without `&& verificationCheck.valid`
checkSucceeded_ignoresValid(check) == check.status = sApproved

\* line 319
checkSucceeded(check) == check.status = sApproved /\ check.valid

\* lines 236-276; the body is one of bodies
VrReceive(r, bodies) ==
  /\ vr[r].pc = "idle"
  /\ \E body \in bodies :
     vr' = [vr EXCEPT ![r] =
       IF configMissing
       THEN [@ EXCEPT !.pc = "done", !.body = body,
              !.resp = VErr(503, "Phone verification is not configured. Please contact support.")]
       ELSE IF ~verifyCodeSchema(body)
       THEN [@ EXCEPT !.pc = "done", !.body = body, !.parsed = TRUE,
                      !.resp = VErr(400, "Invalid request")]
       ELSE [@ EXCEPT !.pc = "findLoan", !.body = body, !.parsed = TRUE,
                      !.formattedPhone = formatPhoneNumber(body.phoneNumber)]]
  /\ UNCHANGED <<loans, loans0, clock, env, wh>>

\* line 257 throws on a body that is not JSON: lines 382-387
VrBadJson(r) ==
  /\ vr[r].pc = "idle"
  /\ vr' = [vr EXCEPT ![r] =
       IF configMissing
       THEN [@ EXCEPT !.pc = "done",
              !.resp = VErr(503, "Phone verification is not configured. Please contact support.")]
       ELSE [@ EXCEPT !.pc = "done", !.resp = VErr(500, "Internal server error")]]
  /\ UNCHANGED <<loans, loans0, clock, env, wh>>

\* lines 278-301
VrFindLoan(r, qerr) ==
  /\ vr[r].pc = "findLoan"
  /\ LET res == Single(loans, SelectEq(loans, "id", vr[r].body.loanId), qerr)
         q   == [vr[r] EXCEPT !.reads = @ + 1, !.loan = res.data]
     IN vr' = [vr EXCEPT ![r] =
          IF res.error \/ res.data.id = Null
          THEN [q EXCEPT !.pc = "done", !.resp = VErr(404, "Loan not found")]
          ELSE IF alreadyVerified(res.data)
          THEN [q EXCEPT !.pc = "done",
                  !.resp = [http |-> 200, error |-> "", success |-> TRUE,
                            status |-> sApproved,
                            message |-> "Phone number already verified"]]
          ELSE [q EXCEPT !.pc = "twilio"]]
  /\ UNCHANGED <<loans, loans0, clock, env, wh>>

\* lines 303-319, 342-347, 357-361: the provider answers the check
VrCheck(r, status, valid) ==
  /\ vr[r].pc = "twilio"
  /\ LET q == [vr[r] EXCEPT !.calls = @ + 1, !.now = clock,
                            !.check = [status |-> status, valid |-> valid]]
     IN vr' = [vr EXCEPT ![r] =
          IF checkSucceeded(q.check)
          THEN [q EXCEPT !.pc = "updateVerified"]
          ELSE IF status = sCanceled
          THEN [q EXCEPT !.pc = "updateFailed"]
          ELSE [q EXCEPT !.pc = "done",
                  !.resp = [http |-> 200, error |-> "", success |-> FALSE,
                            status |-> status,
                            message |-> "Invalid verification code"]]]
  /\ UNCHANGED <<loans, loans0, clock, env, wh>>

\* lines 364-380: the provider call throws {code, message, status};
\* status 0 stands for an error without a status
VrCheckThrows(r, code, status) ==
  /\ vr[r].pc = "twilio"
  /\ vr' = [vr EXCEPT ![r] =
       [@ EXCEPT !.pc = "done", !.calls = @ + 1,
          !.resp = IF code = 60202
                   THEN VErr(400, "Max check attempts reached. Please request a new code.")
                   ELSE VErr(IF status # 0 THEN status ELSE 500,
                             "Failed to verify code")]]
  /\ UNCHANGED <<loans, loans0, clock, env, wh>>

\* lines 320-340
VrUpdateVerified(r, fails) ==
  /\ vr[r].pc = "updateVerified"
  /\ loans' = UpdateEqId(loans,
                 [phone_verification_status |-> sVerified,
                  verified_phone_number |-> vr[r].formattedPhone,
                  updated_at |-> vr[r].now],
                 vr[r].body.loanId, fails)
  /\ vr' = [vr EXCEPT ![r] =
       [@ EXCEPT !.pc = "done", !.writes = @ + 1, !.updateError = fails,
          !.resp = [http |-> 200, error |-> "", success |-> TRUE,
                    status |-> sApproved,
                    message |-> "Phone number verified successfully"]]]
  /\ UNCHANGED <<loans0, clock, env, wh>>

\* lines 347-361
VrUpdateFailed(r, fails) ==
  /\ vr[r].pc = "updateFailed"
  /\ loans' = UpdateEqId(loans,
                 [phone_verification_status |-> sFailed,
                  updated_at |-> vr[r].now],
                 vr[r].body.loanId, fails)
  /\ vr' = [vr EXCEPT ![r] =
       [@ EXCEPT !.pc = "done", !.writes = @ + 1,
          !.resp = [http |-> 200, error |-> "", success |-> FALSE,
                    status |-> vr[r].check.status,
                    message |-> "Invalid verification code"]]]
  /\ UNCHANGED <<loans0, clock, env, wh>>

(***************************************************************************)
(* Requests the environment sends                                          *)
(***************************************************************************)
Time1 == <<"T","1">>
Time2 == <<"T","2">>

\* format 1 with an envelopeSummary
ShapeA(v) ==
  [EmptyPayload EXCEPT !.data =
     [isObject |-> TRUE, envelopeId |-> v.envelopeId,
      envelopeSummary |-> [isObject |-> TRUE, status |-> v.status,
                           completedDateTime |-> v.completedDateTime,
                           statusChangedDateTime |-> v.statusChangedDateTime],
      status |-> Undefined, customFields |-> v.customFields]]

\* format 1 without an envelopeSummary: only data.status
ShapeA2(v) ==
  [EmptyPayload EXCEPT !.data =
     [isObject |-> TRUE, envelopeId |-> v.envelopeId,
      envelopeSummary |-> NoSummary,
      status |-> v.status, customFields |-> v.customFields]]

\* format 2 with `status`
ShapeB(v) ==
  [EmptyPayload EXCEPT !.envelopeId = v.envelopeId, !.status = v.status,
     !.completedDateTime = v.completedDateTime,
     !.statusChangedDateTime = v.statusChangedDateTime,
     !.customFields = v.customFields]

\* format 2 with `envelopeStatus`
ShapeB2(v) ==
  [EmptyPayload EXCEPT !.envelopeId = v.envelopeId,
     !.envelopeStatus = v.status,
     !.completedDateTime = v.completedDateTime,
     !.statusChangedDateTime = v.statusChangedDateTime,
     !.customFields = v.customFields]

Values(es, ss, cs, ts, fs) ==
  [envelopeId : es, status : ss, completedDateTime : cs,
   statusChangedDateTime : ts, customFields : fs]

Shapes(vs) ==
  {ShapeA(v) : v \in vs} \cup {ShapeA2(v) : v \in vs}
    \cup {ShapeB(v) : v \in vs} \cup {ShapeB2(v) : v \in vs}

StatusInputs ==
  { sCompleted, <<"S","i","g","n","e","d">>,
    <<"D","E","C","L","I","N","E","D">>, <<"V","o","i","d","e","d">>,
    sSent, <<"D","e","l","i","v","e","r","e","d">>,
    <<"C","r","e","a","t","e","d">>, <<>> }

\* one delivery at a time, every kind of payload
PayloadsOne ==
  Shapes(Values({Env1, Env2, Env3, <<>>}, StatusInputs,
                {Undefined, <<>>, Time1}, {Undefined, Time2},
                {NoFields, EmptyFields, Fields(Loan1), Fields(Loan3),
                 Fields(<<>>)}))
    \cup {EmptyPayload}

\* two concurrent deliveries for the envelope of one loan
ValuesTwo ==
  Values({Env1}, {<<"D","e","c","l","i","n","e","d">>, sCompleted, sSent},
         {Undefined, Time1}, {Undefined}, {NoFields, EmptyFields})

PayloadsTwo ==
  {ShapeA(v) : v \in ValuesTwo} \cup {ShapeB(v) : v \in ValuesTwo}
    \cup {ShapeB2(v) : v \in ValuesTwo}

AllConfigured == [accountSid |-> TRUE, authToken |-> TRUE, verifySid |-> TRUE]

(***************************************************************************)
(* One webhook delivery                                                    *)
(***************************************************************************)
InitWebhook ==
  /\ \E st \in {sReview, sSigned, sFunded}, e2 \in {Env1, Env2} :
       loans = (Loan1 :> LoanRow(st, Env1, sSent, sVerified, Phone0))
            @@ (Loan2 :> LoanRow(sReview, e2, Null, sUnverified, Null))
  /\ loans0 = loans
  /\ clock = 0
  /\ env = AllConfigured
  /\ wh = [r \in {"w1"} |-> WhIdle]
  /\ vr = <<>>

NextWebhook ==
  \/ \E r \in DOMAIN wh : WhReceive(r, PayloadsOne)
  \/ \E r \in DOMAIN wh : WhBadJson(r)
  \/ \E r \in DOMAIN wh, qerr \in BOOLEAN : WhFindByEnvelope(r, qerr)
  \/ \E r \in DOMAIN wh, qerr \in BOOLEAN : WhFindByLoanId(r, qerr)
  \/ \E r \in DOMAIN wh, fails \in BOOLEAN : WhUpdate(r, fails)
  \/ Tick

SpecWebhook == InitWebhook /\ [][NextWebhook]_vars

(***************************************************************************)
(* Two concurrent webhook deliveries                                       *)
(***************************************************************************)
InitWebhookTwo ==
  /\ \E st \in {sReview, sSigned, sFunded} :
       loans = (Loan1 :> LoanRow(st, Env1, sSent, sVerified, Phone0))
            @@ (Loan2 :> LoanRow(sReview, Env2, Null, sUnverified, Null))
  /\ loans0 = loans
  /\ clock = 0
  /\ env = AllConfigured
  /\ wh = [r \in {"w1", "w2"} |-> WhIdle]
  /\ vr = <<>>

NextWebhookTwo ==
  \/ \E r \in DOMAIN wh : WhReceive(r, PayloadsTwo)
  \/ \E r \in DOMAIN wh, qerr \in BOOLEAN : WhFindByEnvelope(r, qerr)
  \/ \E r \in DOMAIN wh, fails \in BOOLEAN : WhUpdate(r, fails)
  \/ Tick

SpecWebhookTwo == InitWebhookTwo /\ [][NextWebhookTwo]_vars

(***************************************************************************)
(* One verification request                                                *)
(***************************************************************************)
PhoneE164   == <<"+","1","5","5","5","1","2","3","4","5","6","7">>
PhoneTen    == <<"(","5","5","5",")"," ","1","2","3","-","4","5","6","7">>
PhoneEleven == <<"1","-","5","5","5","-","1","2","3","-","4","5","6","7">>
PhoneOther  == <<"2","5","5","5","1","2","3","4","5","6","7">>
PhoneShort  == <<"1","2","3">>

Code1 == <<"1","2","3","4","5","6">>

NotAUuid == <<"4","2">>

sPending == <<"p","e","n","d","i","n","g">>

CheckStatuses == {sApproved, sCanceled, sPending, sFailed}

\* error codes and HTTP statuses of a failed provider call
ThrownCodes == {60202, 20404}

ThrownStatuses == {0, 404, 429}

BodiesOne ==
  [phoneNumber : {PhoneE164, PhoneTen, PhoneEleven, PhoneOther, PhoneShort,
                  <<>>, Undefined},
   code : {Code1, <<>>},
   loanId : {Loan1, Loan2, Loan3, NotAUuid, Undefined}]

BodiesTwo ==
  [phoneNumber : {PhoneTen, PhoneOther}, code : {Code1}, loanId : {Loan1}]

InitVerify ==
  /\ \E pvs \in {sUnverified, sVerified, sFailed} :
       loans = (Loan1 :> LoanRow(sReview, Env1, sSent, pvs,
                                 IF pvs = sVerified THEN Phone0 ELSE Null))
            @@ (Loan2 :> LoanRow(sSigned, Env2, sSigned, sUnverified, Null))
  /\ loans0 = loans
  /\ clock = 0
  /\ env \in [accountSid : BOOLEAN, authToken : BOOLEAN, verifySid : BOOLEAN]
  /\ wh = <<>>
  /\ vr = [r \in {"v1"} |-> VrIdle]

NextVerify ==
  \/ \E r \in DOMAIN vr : VrReceive(r, BodiesOne)
  \/ \E r \in DOMAIN vr : VrBadJson(r)
  \/ \E r \in DOMAIN vr, qerr \in BOOLEAN : VrFindLoan(r, qerr)
  \/ \E r \in DOMAIN vr, st \in CheckStatuses, valid \in BOOLEAN :
       VrCheck(r, st, valid)
  \/ \E r \in DOMAIN vr, c \in ThrownCodes, st \in ThrownStatuses :
       VrCheckThrows(r, c, st)
  \/ \E r \in DOMAIN vr, fails \in BOOLEAN : VrUpdateVerified(r, fails)
  \/ \E r \in DOMAIN vr, fails \in BOOLEAN : VrUpdateFailed(r, fails)
  \/ Tick

SpecVerify == InitVerify /\ [][NextVerify]_vars

(***************************************************************************)
(* Two concurrent verification requests for one loan                       *)
(***************************************************************************)
InitVerifyTwo ==
  /\ \E pvs \in {sUnverified, sVerified, sFailed} :
       loans = (Loan1 :> LoanRow(sReview, Env1, sSent, pvs,
                                 IF pvs = sVerified THEN Phone0 ELSE Null))
            @@ (Loan2 :> LoanRow(sSigned, Env2, sSigned, sUnverified, Null))
  /\ loans0 = loans
  /\ clock = 0
  /\ env = AllConfigured
  /\ wh = <<>>
  /\ vr = [r \in {"v1", "v2"} |-> VrIdle]

NextVerifyTwo ==
  \/ \E r \in DOMAIN vr : VrReceive(r, BodiesTwo)
  \/ \E r \in DOMAIN vr, qerr \in BOOLEAN : VrFindLoan(r, qerr)
  \/ \E r \in DOMAIN vr, st \in CheckStatuses, valid \in BOOLEAN :
       VrCheck(r, st, valid)
  \/ \E r \in DOMAIN vr, c \in ThrownCodes, st \in ThrownStatuses :
       VrCheckThrows(r, c, st)
  \/ \E r \in DOMAIN vr, fails \in BOOLEAN : VrUpdateVerified(r, fails)
  \/ \E r \in DOMAIN vr, fails \in BOOLEAN : VrUpdateFailed(r, fails)
  \/ Tick

SpecVerifyTwo == InitVerifyTwo /\ [][NextVerifyTwo]_vars

(***************************************************************************)
(* Properties of the webhook reconciler                                    *)
(***************************************************************************)
HasUpper(s) == \E i \in 1..Len(s), j \in 1..Len(UpperChars) : s[i] = UpperChars[j]

SameIgnoringCase(a, b) ==
  /\ Len(a) = Len(b)
  /\ \A i \in 1..Len(a) :
       \/ a[i] = b[i]
       \/ \E j \in 1..Len(UpperChars) :
            {a[i], b[i]} = {UpperChars[j], LowerChars[j]}

IsLowerCased(out, in) == SameIgnoringCase(out, in) /\ ~HasUpper(out)

Resolved(q) == q.pc \in {"update", "done"} /\ q.loan.id # Null /\ ~q.findError

\* the table of section 4.1 for input `in` and loan status `cur`, stated on
\* the resulting pair <<docusignStatus, loan status>>
TableRow(in, cur, ds, ls) ==
  IF SameIgnoringCase(in, sCompleted) \/ SameIgnoringCase(in, sSigned)
  THEN ds = sSigned /\ ls = sSigned
  ELSE IF SameIgnoringCase(in, sDeclined) \/ SameIgnoringCase(in, sVoided)
  THEN IsLowerCased(ds, in) /\ ls = sReview
  ELSE IsLowerCased(ds, in) /\ ls = cur

\* C1: a delivery that resolves a loan maps its status, lower-cased, by the
\* table: completed/signed give docusignStatus signed and loan status signed,
\* declined/voided give the lower-cased input and loan status review, every
\* other value gives the lower-cased input and the loan status the loan had;
\* the update data carries that docusignStatus, and a successful delivery
\* answers with the pair and leaves it in the store.
C1_StatusMapping ==
  \A r \in DOMAIN wh :
    LET q == wh[r] IN
    Resolved(q) =>
      /\ \E ls \in {sSigned, sReview, q.loan.status} :
           /\ TableRow(q.t.status, q.loan.status, q.updateData.docusign_status, ls)
           /\ "status" \in DOMAIN q.updateData => q.updateData.status = ls
      /\ q.resp.http = 200 =>
           /\ TableRow(q.t.status, loans0[q.loan.id].status,
                       q.resp.docusignStatus, q.resp.loanStatus)
           /\ loans[q.loan.id].docusign_status = q.resp.docusignStatus
           /\ loans[q.loan.id].status = q.resp.loanStatus

C1_Witness ==
  \E r \in DOMAIN wh :
    /\ wh[r].resp.http = 200
    /\ HasUpper(wh[r].t.status)
    /\ SameIgnoringCase(wh[r].t.status, sDeclined)
    /\ loans0[wh[r].loan.id].status = sSigned
    /\ loans[wh[r].loan.id].status = sReview
    /\ loans[wh[r].loan.id].docusign_status = sDeclined

\* C6: the update of a successful delivery sets docusign_status and
\* docusign_status_updated of the resolved loan, sets status only when the
\* computed status differs from the status read at lookup, sets
\* docusign_completed_at only when the payload had a non-empty
\* completedDateTime, and changes no other column, no other row and not the
\* set of rows.
C6_UpdateFrame ==
  [][\A r \in DOMAIN wh :
       (wh[r].pc = "update" /\ wh'[r].pc = "done" /\ wh'[r].resp.http = 200) =>
         LET q  == wh[r]
             id == q.loan.id
             ds == wh'[r].resp.docusignStatus
             ls == wh'[r].resp.loanStatus
         IN /\ DOMAIN loans' = DOMAIN loans
            /\ \A k \in DOMAIN loans : k # id => loans'[k] = loans[k]
            /\ "status" \in DOMAIN q.updateData <=> ls # q.loan.status
            /\ "docusign_completed_at" \in DOMAIN q.updateData
                 <=> Truthy(q.t.completedDateTime)
            /\ loans'[id] =
                 [loans[id] EXCEPT
                    !.docusign_status = ds,
                    !.docusign_status_updated = q.updateData.docusign_status_updated,
                    !.status = IF ls # q.loan.status THEN ls ELSE @,
                    !.docusign_completed_at =
                       IF Truthy(q.t.completedDateTime)
                       THEN q.t.completedDateTime ELSE @]
            /\ q.updateData.docusign_status_updated \in 0..clock
    ]_vars

C6_Witness ==
  \E r \in DOMAIN wh :
    /\ wh[r].resp.http = 200
    /\ wh[r].t.completedDateTime = Time1
    /\ loans[wh[r].loan.id].docusign_completed_at = Time1
    /\ loans[wh[r].loan.id].docusign_status_updated = 1
    /\ loans[wh[r].loan.id].status # loans0[wh[r].loan.id].status
    /\ loans[Loan1].phone_verification_status = sVerified
    /\ loans[Loan1].verified_phone_number = Phone0

\* C4: the loan is looked up by docusign_envelope_id first; the lookup by
\* id = customFields.loan_id is made only after the first lookup failed and
\* with a loan_id present; when no lookup yields a loan the answer is 404
\* and the table is as it was.
C4_LoanLookup ==
  \A r \in DOMAIN wh :
    LET q == wh[r] IN
    /\ q.lookups = 2 => q.envelopeError /\ Truthy(q.t.customFields.loan_id)
    /\ (q.lookups >= 1 /\ q.matched # 1) => q.envelopeError
    /\ (q.lookups >= 1 /\ ~q.envelopeError) =>
         /\ q.lookups = 1
         /\ q.loan.id \in DOMAIN loans0
         /\ loans0[q.loan.id].docusign_envelope_id = q.t.envelopeId
    /\ (q.pc = "done" /\ q.lookups >= 1 /\ q.envelopeError
          /\ (q.lookups = 1 \/ q.customFieldError)) =>
         q.resp.http = 404 /\ loans = loans0
    /\ (q.pc = "done" /\ q.lookups >= 1 /\ q.envelopeError
          /\ ~Truthy(q.t.customFields.loan_id)) =>
         q.resp.http = 404 /\ loans = loans0

C4_Witness ==
  \E r \in DOMAIN wh :
    /\ wh[r].pc = "done"
    /\ wh[r].lookups = 2
    /\ wh[r].matched = 0
    /\ wh[r].t.customFields.loan_id = Loan3
    /\ wh[r].customFieldError
    /\ wh[r].resp.http = 404

\* C5 as stated: a delivery whose envelopeId is carried by more than one
\* loan ends in an error response with no loan modified.
C5_AmbiguityIsError ==
  \A r \in DOMAIN wh :
    (wh[r].pc = "done" /\ wh[r].matched > 1) =>
      wh[r].resp.http >= 400 /\ loans = loans0

FallbackFound(q) ==
  /\ Truthy(q.t.customFields.loan_id)
  /\ q.t.customFields.loan_id \in DOMAIN loans0
  /\ q.lookups = 2
  /\ ~q.customFieldError

\* C5 amended: when more than one loan carries the envelopeId the envelope
\* lookup fails, and the delivery ends in 404 with no loan modified unless
\* the lookup by customFields.loan_id finds a loan, which is then the loan
\* resolved; a loan is modified only by a 200 delivery, and then it is the
\* single loan carrying the envelopeId or the loan whose id is the loan_id.
C5_AmbiguityOrFallback ==
  \A r \in DOMAIN wh :
    LET q == wh[r] IN
    (q.pc = "done" /\ q.lookups >= 1) =>
      /\ q.matched > 1 => q.envelopeError
      /\ (q.matched > 1 /\ ~FallbackFound(q)) =>
           q.resp.http = 404 /\ loans = loans0
      /\ (q.matched > 1 /\ FallbackFound(q)) =>
           q.resp.http \in {200, 500} /\ q.loan.id = q.t.customFields.loan_id
      /\ loans # loans0 =>
           /\ q.resp.http = 200
           /\ \A k \in DOMAIN loans : k # q.loan.id => loans[k] = loans0[k]
           /\ \/ /\ q.matched = 1 /\ ~q.envelopeError
                 /\ loans0[q.loan.id].docusign_envelope_id = q.t.envelopeId
              \/ /\ q.envelopeError
                 /\ q.loan.id = q.t.customFields.loan_id

C5_Witness ==
  \E r \in DOMAIN wh :
    /\ wh[r].pc = "done"
    /\ wh[r].matched = 2
    /\ wh[r].lookups = 2
    /\ wh[r].resp.http = 200
    /\ wh[r].loan.id = Loan1
    /\ loans # loans0

\* the values a Shape A or a Shape B payload carries
CarriedValues(p) ==
  IF p.data.isObject
  THEN [envelopeId |-> p.data.envelopeId,
        status |-> p.data.envelopeSummary.status,
        completedDateTime |-> p.data.envelopeSummary.completedDateTime,
        statusChangedDateTime |-> p.data.envelopeSummary.statusChangedDateTime,
        customFields |-> p.data.customFields]
  ELSE [envelopeId |-> p.envelopeId,
        status |-> IF p.status # Undefined THEN p.status ELSE p.envelopeStatus,
        completedDateTime |-> p.completedDateTime,
        statusChangedDateTime |-> p.statusChangedDateTime,
        customFields |-> p.customFields]

IsShapeA(p) == p.data.isObject /\ p.data.envelopeSummary.isObject

IsShapeB(p) == ~p.data.isObject /\ p.envelopeId # Undefined

WithoutTime(u) == [c \in DOMAIN u \ {"docusign_status_updated"} |-> u[c]]

SerialPair(s0, a, b) ==
  LET s1 == MapStatus(wh[a].t.status, s0).newLoanStatus
      m  == MapStatus(wh[b].t.status, s1)
  IN <<m.newLoanStatus, m.docusignStatus>>

\* C10: after two deliveries for one loan have both been processed, the
\* stored <<status, docusign_status>> is the pair of one of the two serial
\* orders; a stored docusign_status declined or voided goes with status
\* review.
C10_Serializable ==
  \A a \in DOMAIN wh, b \in DOMAIN wh :
    (/\ a # b
     /\ wh[a].resp.http = 200 /\ wh[b].resp.http = 200
     /\ wh[a].loan.id = wh[b].loan.id) =>
       LET id == wh[a].loan.id
           s0 == loans0[id].status
       IN /\ <<loans[id].status, loans[id].docusign_status>>
               \in {SerialPair(s0, a, b), SerialPair(s0, b, a)}
          /\ loans[id].docusign_status \in {sDeclined, sVoided}
               => loans[id].status = sReview

(***************************************************************************)
(* Properties of the verification checker                                  *)
(***************************************************************************)
\* C2 as stated: a stored phone_verification_status of verified is never
\* changed by any step of any verification request.
C2_VerifiedIsTerminal ==
  [][\A id \in DOMAIN loans :
       loans[id].phone_verification_status = sVerified
         => loans'[id].phone_verification_status = sVerified]_vars

ApprovedResp(q) ==
  /\ q.resp.http = 200 /\ q.resp.success /\ q.resp.status = sApproved
  /\ q.resp.error = ""

\* C3: a request that reads its loan as verified answers
\* 200 {success: true, status: 'approved'} with no provider call and no
\* store write, whatever its code and phone number; two such requests
\* get the same response.
C3_ShortCircuit ==
  \A a \in DOMAIN vr :
    LET q == vr[a] IN
    (q.reads = 1 /\ q.loan.id # Null
       /\ q.loan.phone_verification_status = sVerified) =>
      /\ q.pc = "done"
      /\ ApprovedResp(q)
      /\ q.calls = 0 /\ q.writes = 0
      /\ \A b \in DOMAIN vr :
           (vr[b].reads = 1 /\ vr[b].loan.id # Null
              /\ vr[b].loan.phone_verification_status = sVerified)
             => vr[b].resp = q.resp

C3_Witness ==
  /\ loans0[Loan1].phone_verification_status = sVerified
  /\ \A r \in DOMAIN vr :
       /\ vr[r].pc = "done"
       /\ vr[r].loan.phone_verification_status = sVerified
       /\ vr[r].resp.success
  /\ vr["v1"].body.phoneNumber # vr["v2"].body.phoneNumber
  /\ loans = loans0

BadBody(b) ==
  \/ b.phoneNumber \in {Undefined, <<>>}
  \/ b.code \in {Undefined, <<>>}
  \/ b.loanId \notin {Loan1, Loan2, Loan3}

Untouched(q) == q.calls = 0 /\ q.reads = 0 /\ q.writes = 0 /\ loans = loans0

ExpectedPhone(p) ==
  IF p \in {PhoneE164, PhoneTen, PhoneEleven} THEN PhoneE164 ELSE p

\* C7: for a loan that exists and was read as not verified, once the
\* provider has answered: approved and valid gives 200 success:true, and
\* the row becomes verified with the normalized phone unless that write
\* failed; canceled gives 200 success:false and the row becomes failed
\* (or stays, when the write failed); every other answer gives
\* 200 success:false with the provider's status and leaves the table as
\* it was.
C7_VerdictMapping ==
  \A r \in DOMAIN vr :
    LET q  == vr[r]
        id == q.body.loanId
    IN (q.pc = "done" /\ q.check.status # Null) =>
         /\ q.loan.id = id /\ id \in DOMAIN loans0
         /\ q.loan.phone_verification_status # sVerified
         /\ q.calls = 1
         /\ q.now \in 0..clock
         /\ IF q.check.status = sApproved /\ q.check.valid
            THEN /\ ApprovedResp(q)
                 /\ loans =
                      IF q.updateError THEN loans0
                      ELSE [loans0 EXCEPT ![id] =
                              [@ EXCEPT
                                 !.phone_verification_status = sVerified,
                                 !.verified_phone_number =
                                    ExpectedPhone(q.body.phoneNumber),
                                 !.updated_at = q.now]]
            ELSE /\ q.resp.http = 200 /\ ~q.resp.success
                 /\ q.resp.status = q.check.status
                 /\ IF q.check.status = sCanceled
                    THEN loans \in
                           {loans0,
                            [loans0 EXCEPT ![id] =
                               [@ EXCEPT
                                  !.phone_verification_status = sFailed,
                                  !.updated_at = q.now]]}
                    ELSE loans = loans0

C7_Witness ==
  \E r \in DOMAIN vr :
    /\ vr[r].pc = "done"
    /\ vr[r].body.phoneNumber = PhoneTen
    /\ vr[r].check = [status |-> sApproved, valid |-> TRUE]
    /\ loans0[Loan1].phone_verification_status = sFailed
    /\ loans[Loan1].phone_verification_status = sVerified
    /\ loans[Loan1].verified_phone_number = PhoneE164
    /\ vr[r].resp.success

====
